---------------------------- MODULE Spec2Model ----------------------------
(***************************************************************************)
(* Model of run.py: search YouTube videos filtered by duration.            *)
(*                                                                         *)
(* Strings are sequences of one-character strings, so that the regular     *)
(* expression of iso_time_duration_to_seconds can be run over them.        *)
(*                                                                         *)
(* Specifications:                                                         *)
(*   Spec          the whole program: parse_args, main, and the call of    *)
(*                 search_youtube_videos with its remote requests          *)
(*   SpecSearch    search_youtube_videos called with every FilterMode      *)
(*   SpecParse     iso_time_duration_to_seconds over bounded strings       *)
(*   SpecRoundTrip iso_time_duration_to_seconds over formatted components  *)
(*   SpecClassify  the duration category and the filter over thresholds    *)
(***************************************************************************)
EXTENDS Integers, Sequences, FiniteSets, TLC

VARIABLES
    pc,              \* position of the process
    args,            \* the argparse namespace (what the command line gave)
    api_key,         \* TRUE iff YOUTUBE_API_KEY is set in the environment
    query,           \* query handed to search_youtube_videos
    mode,            \* "list" | "exact" | "interval" | "unset"
    target_seconds,  \* exact target, or None
    min_seconds,     \* interval minimum, or None
    max_seconds,     \* interval maximum, Inf when unbounded, or None
    category,        \* videoDuration sent with the search request
    searchRequests,  \* number of search().list().execute() calls made
    searchOutcome,   \* "none" | "ok" | "HttpError" | "OtherError"
    nItems,          \* number of items the search returned
    idx,             \* 1-based index of the next item of the loop
    hit_count,       \* hit_count of search_youtube_videos
    fetched,         \* content-details responses received, in request order
    stdout,          \* results printed by print_result, in order
    stderr,          \* diagnostics printed to sys.stderr, in order
    exitCode,        \* process exit status, Running while it runs
    comps,           \* SpecRoundTrip: the components the input is written from
    duration_iso,    \* input of iso_time_duration_to_seconds
    result,          \* outcome of iso_time_duration_to_seconds
    duration_seconds,\* SpecClassify: a video's duration in seconds
    passes           \* SpecClassify: whether the filter printed the video

progVars == <<pc, args, api_key, query, mode, target_seconds, min_seconds,
              max_seconds, category, searchRequests, searchOutcome, nItems,
              idx, hit_count, fetched, stdout, stderr, exitCode>>
fnVars == <<comps, duration_iso, result, duration_seconds, passes>>
vars == <<progVars, fnVars>>

---------------------------------------------------------------------------
(* Bounds *)

\* Longest input string enumerated exhaustively by SpecParse.
MaxLen == 4
\* SpecRoundTrip draws each component from 0..MaxSmall and the edge values.
MaxSmall == 4
\* SpecClassify draws thresholds within Delta of each bucket boundary.
Delta == 1
\* Most items a search response holds.
MaxItems == 3

---------------------------------------------------------------------------
(* Python values *)

\* None, for the integer parameters main leaves unset.
None == -1
\* float("inf"): above every duration the parser can return (99 days, 99
\* hours, 99 minutes, 99 seconds = 8916039) and every integer drawn here.
Inf == 1000000000
\* exitCode while the process has not exited.
Running == None

DigitChars == <<"0", "1", "2", "3", "4", "5", "6", "7", "8", "9">>
Digit == {DigitChars[i] : i \in 1..10}
DigitVal(c) == (CHOOSE i \in 1..10 : DigitChars[i] = c) - 1

\* int(value) of a string of decimal digits
RECURSIVE int(_)
int(value) ==
    IF value = <<>> THEN 0
    ELSE 10 * int(SubSeq(value, 1, Len(value) - 1)) + DigitVal(value[Len(value)])

---------------------------------------------------------------------------
(* iso_time_duration_to_seconds *)

\* A state of the matcher: the next position to read and the named groups
\* captured so far (<<>> is a group that did not take part: None).
MatchStart == [pos |-> 1, days |-> <<>>, hours |-> <<>>, minutes |-> <<>>,
               seconds |-> <<>>]

\* The literal character ch.
Lit(s, states, ch) ==
    { [st EXCEPT !.pos = st.pos + 1] :
        st \in { t \in states : t.pos <= Len(s) /\ s[t.pos] = ch } }

\* (?:(?P<name>\d{1,2})X)? : every way the optional group can match.
OptGroup(s, states, name, X) ==
    states \cup
    UNION { { [st EXCEPT !.pos = st.pos + n + 1,
                         ![name] = SubSeq(s, st.pos, st.pos + n - 1)] :
                n \in { k \in 1..2 :
                          /\ st.pos + k <= Len(s)
                          /\ \A j \in 0..(k - 1) : s[st.pos + j] \in Digit
                          /\ s[st.pos + k] = X } } :
            st \in states }

\* re.fullmatch(pattern, duration_iso): the set of complete matches.
FullMatch(s) ==
    LET afterP == Lit(s, {MatchStart}, "P")
        afterD == OptGroup(s, afterP, "days", "D")
        afterT == Lit(s, afterD, "T")
        afterH == OptGroup(s, afterT, "hours", "H")
        afterM == OptGroup(s, afterH, "minutes", "M")
        afterS == OptGroup(s, afterM, "seconds", "S")
        ends   == afterD \cup afterS
    IN  { st \in ends : st.pos = Len(s) + 1 }

\* value and len(value) == 2 and value.startswith('0')
ZeroPaddedMutant(value) == value # <<>> /\ value[1] = "0"
ZeroPadded(value) == value # <<>> /\ Len(value) = 2 /\ value[1] = "0"

\* match.groupdict(default="0") and the weighted sum
TotalSecondsMutant(m) ==
    LET part(v) == IF v = <<>> THEN 0 ELSE int(v)
    IN  part(m.days) * 86400 + part(m.hours) * 3600 + part(m.minutes) * 60
        + part(m.minutes)
TotalSeconds(m) ==
    LET part(v) == IF v = <<>> THEN int(<<"0">>) ELSE int(v)
    IN  part(m.days) * 86400 + part(m.hours) * 3600 + part(m.minutes) * 60
        + part(m.seconds)

Ok(n) == [kind |-> "ok", value |-> n]
Raise(k) == [kind |-> k, value |-> None]

iso_time_duration_to_seconds(s) ==
    LET matches == FullMatch(s) IN
    IF matches = {} THEN Raise("InvalidFormat")
    ELSE LET m == CHOOSE st \in matches : TRUE IN
         IF \E part \in {"days", "hours", "minutes", "seconds"} : ZeroPadded(m[part])
         THEN Raise("ZeroPaddedComponent")
         ELSE Ok(TotalSeconds(m))

---------------------------------------------------------------------------
(* search_youtube_videos: the duration category and the filter *)

PT4M == <<"P", "T", "4", "M">>
PT20M == <<"P", "T", "2", "0", "M">>
PT30M == <<"P", "T", "3", "0", "M">>
PT40M == <<"P", "T", "4", "0", "M">>

\* video_duration_category, as the if/elif chain computes it
DurationCategoryMutant(list_mode, m, target, min, max) ==
    IF list_mode THEN "any"
    ELSE IF m = "exact" THEN
        IF target <= iso_time_duration_to_seconds(PT4M).value THEN "short"
        ELSE IF target < iso_time_duration_to_seconds(PT20M).value THEN "medium"
        ELSE "long"
    ELSE IF m = "interval" THEN
        IF max <= iso_time_duration_to_seconds(PT4M).value THEN "short"
        ELSE IF /\ min >= iso_time_duration_to_seconds(PT4M).value
                /\ max < iso_time_duration_to_seconds(PT20M).value THEN "medium"
        ELSE IF min >= iso_time_duration_to_seconds(PT20M).value THEN "long"
        ELSE "any"
    ELSE "any"
DurationCategory(list_mode, m, target, min, max) ==
    IF list_mode THEN "any"
    ELSE IF m = "exact" THEN
        IF target < iso_time_duration_to_seconds(PT4M).value THEN "short"
        ELSE IF target < iso_time_duration_to_seconds(PT20M).value THEN "medium"
        ELSE "long"
    ELSE IF m = "interval" THEN
        IF max < iso_time_duration_to_seconds(PT4M).value THEN "short"
        ELSE IF /\ min >= iso_time_duration_to_seconds(PT4M).value
                /\ max < iso_time_duration_to_seconds(PT20M).value THEN "medium"
        ELSE IF min >= iso_time_duration_to_seconds(PT20M).value THEN "long"
        ELSE "any"
    ELSE "any"

\* whether the if/elif chain after the try block reaches a print_result
PrintsMutant(list_mode, m, secs, target, min, max) ==
    \/ list_mode
    \/ (~list_mode /\ m = "exact" /\ secs = target)
    \/ (~list_mode /\ m = "interval" /\ min <= secs /\ secs < max)
Prints(list_mode, m, secs, target, min, max) ==
    \/ list_mode
    \/ (~list_mode /\ m = "exact" /\ secs = target)
    \/ (~list_mode /\ m = "interval" /\ min <= secs /\ secs <= max)

\* get_video_duration on a content-details response
get_video_duration(resp) ==
    IF resp.kind = "HttpError" THEN Raise("HttpError")
    ELSE IF resp.kind = "empty" THEN Raise("NoVideoDetails")
    ELSE [kind |-> "ok", value |-> resp.duration]

\* the try block of the loop: fetch, then parse
ItemDuration(resp) ==
    LET got == get_video_duration(resp) IN
    IF got.kind # "ok" THEN Raise(got.kind)
    ELSE iso_time_duration_to_seconds(got.value)

\* except Exception: print the diagnostic and continue with the next item
AfterItemErrorMutant(i) == [pc |-> "exited", idx |-> i, exitCode |-> 1]
AfterItemError(i) == [pc |-> "loop", idx |-> i + 1, exitCode |-> Running]

\* if hit_count == 0
NoticeNeededMutant(hits) == hits <= 1
NoticeNeeded(hits) == hits = 0

\* sys.exit(1) of the HttpError handler
SearchFailureExitMutant == [pc |-> "exited", exitCode |-> 0]
SearchFailureExit == [pc |-> "exited", exitCode |-> 1]

---------------------------------------------------------------------------
(* Inputs *)

\* An optional command-line value: given is FALSE for an option left out
\* (the namespace holds None), v is the value otherwise.
NoStr == [given |-> FALSE, v |-> <<>>]
Str(s) == [given |-> TRUE, v |-> s]
NoInt == [given |-> FALSE, v |-> 0]
Int_(n) == [given |-> TRUE, v |-> n]

\* Python truthiness of an optional string and of an optional integer
TruthyStr(o) == o.given /\ o.v # <<>>
TruthyInt(o) == o.given /\ o.v # 0

PT5M == <<"P", "T", "5", "M">>
PT05M == <<"P", "T", "0", "5", "M">>
PT29M59S == <<"P", "T", "2", "9", "M", "5", "9", "S">>
PT40M1S == <<"P", "T", "4", "0", "M", "1", "S">>

IsoArgs == {NoStr, Str(PT5M), Str(PT05M)}
SecondsArgs == {NoInt, Int_(0), Int_(300)}
MinArgs == {NoStr, Str(PT4M), Str(PT30M), Str(<<"5", "M">>)}
MaxArgs == {NoStr, Str(PT20M), Str(PT05M)}

ArgsSet ==
    [q : BOOLEAN, test : BOOLEAN, list : BOOLEAN, iso_8601 : IsoArgs,
     seconds : SecondsArgs, min_duration : MinArgs, max_duration : MaxArgs]

NoArgs == [q |-> FALSE, test |-> FALSE, list |-> FALSE, iso_8601 |-> NoStr,
           seconds |-> NoInt, min_duration |-> NoStr, max_duration |-> NoStr]

\* What the content-details endpoint can answer for one video id.
HttpErrorResp == [kind |-> "HttpError", duration |-> <<>>]
EmptyResp == [kind |-> "empty", duration |-> <<>>]
Item(dur) == [kind |-> "item", duration |-> dur]
DetailResponses ==
    {HttpErrorResp, EmptyResp} \cup
    {Item(dur) : dur \in {PT5M, PT05M, PT29M59S, PT30M, PT40M, PT40M1S}}

\* Thresholds within Delta of the bucket boundaries 0, 4 min and 20 min,
\* and the interval bounds the spec's examples use.
NearBoundary ==
    { n \in 0..(1200 + Delta) :
        \E b \in {0, 240, 300, 600, 900, 1200} : n >= b - Delta /\ n <= b + Delta }
    \cup {100, 1300}

\* The FilterModes search_youtube_videos is called with.
ModeSet ==
    {[mode |-> "list", target |-> None, min |-> None, max |-> None]}
    \cup {[mode |-> "exact", target |-> t, min |-> None, max |-> None] :
            t \in NearBoundary}
    \cup {[mode |-> "interval", target |-> None, min |-> lo, max |-> hi] :
            lo \in NearBoundary, hi \in NearBoundary \cup {Inf}}

\* FilterModes for the run over items: the durations the items carry are
\* 300, 1799, 1800, 2400 and 2401 seconds.
RunModeSet ==
    {[mode |-> "list", target |-> None, min |-> None, max |-> None]}
    \cup {[mode |-> "exact", target |-> t, min |-> None, max |-> None] :
            t \in {300, 1800}}
    \cup {[mode |-> "interval", target |-> None, min |-> lo, max |-> hi] :
            lo \in {0, 300, 1800}, hi \in {300, 2400, Inf}}

Alphabet == {"P", "D", "T", "H", "M", "S", "0", "5", "x"}
LongInputs ==
    {PT05M, PT5M,
     <<"P", "T", "0", "S">>, <<"5", "M">>,
     <<"P", "T", "5", "M", "5", "S">>,
     <<"P", "5", "D", "T", "5", "H", "5", "M", "5", "S">>,
     <<"P", "0", "5", "D", "T", "5", "H", "5", "M", "5", "S">>,
     <<"P", "5", "D", "T", "5", "H", "5", "M", "0", "0", "S">>,
     <<"P", "5", "5", "D", "T", "5", "0", "H", "5", "5", "M", "5", "0", "S">>,
     <<"P", "T", "5", "M", "5", "S", "x">>,
     <<"x", "P", "T", "5", "M", "5", "S">>,
     <<"P", "T", "5", "S", "5", "M">>,
     <<"P", "T", "5", "5", "5", "M">>,
     <<"P", "5", "D", "5", "H">>,
     <<"P", "T", "5", "M", "T", "5", "S">>}
InputStrings == UNION {[1..n -> Alphabet] : n \in 0..MaxLen} \cup LongInputs

\* A component left out of the string.
Absent == None
ComponentValues == (0..MaxSmall) \cup {7, 9, 10, 59, 99} \cup {Absent}
NoComps == [days |-> Absent, hours |-> Absent, minutes |-> Absent,
            seconds |-> Absent, hasT |-> FALSE]
ComponentTuples ==
    { c \in [days : ComponentValues, hours : ComponentValues,
             minutes : ComponentValues, seconds : ComponentValues,
             hasT : BOOLEAN] :
        ~c.hasT => (c.hours = Absent /\ c.minutes = Absent /\ c.seconds = Absent) }

\* n written in decimal without padding, followed by its designator
Written(n, X) ==
    IF n = Absent THEN <<>>
    ELSE IF n < 10 THEN <<DigitChars[n + 1], X>>
    ELSE <<DigitChars[(n \div 10) + 1], DigitChars[(n % 10) + 1], X>>

Format(c) ==
    <<"P">> \o Written(c.days, "D")
    \o (IF c.hasT
        THEN <<"T">> \o Written(c.hours, "H") \o Written(c.minutes, "M")
             \o Written(c.seconds, "S")
        ELSE <<>>)

---------------------------------------------------------------------------
(* parse_args and main *)

\* parser.parse_args() and the check after it: TRUE iff parse_args returns.
\* argparse itself refuses a missing -q and two options of the mutually
\* exclusive group -i / -s / -l.
ParseArgsAccepts(a) ==
    /\ a.q
    /\ Cardinality({o \in {"i", "s", "l"} :
                      \/ (o = "i" /\ a.iso_8601.given)
                      \/ (o = "s" /\ a.seconds.given)
                      \/ (o = "l" /\ a.list)}) <= 1
    /\ \/ TruthyStr(a.iso_8601)
       \/ TruthyInt(a.seconds)
       \/ a.list
       \/ TruthyStr(a.min_duration)
       \/ TruthyStr(a.max_duration)

Fail(msg) == [err |-> TRUE, msg |-> msg, query |-> "", mode |-> "unset",
              target |-> None, min |-> None, max |-> None]
Call(q, m, target, min, max) ==
    [err |-> FALSE, msg |-> "", query |-> q, mode |-> m,
     target |-> target, min |-> min, max |-> max]

\* `args.iso_8601 or args.seconds` and `args.min_duration or args.max_duration`
ExactGiven(a) == TruthyStr(a.iso_8601) \/ TruthyInt(a.seconds)
IntervalGiven(a) == TruthyStr(a.min_duration) \/ TruthyStr(a.max_duration)

\* main from the credential check to the call of search_youtube_videos:
\* the parameters of the call, or the error main exits on.
MainSetup(a, key) ==
    IF ~key THEN Fail("Error: YOUTUBE_API_KEY environment variable not set.")
    ELSE IF a.test THEN
        LET lo == iso_time_duration_to_seconds(PT30M)
            hi == iso_time_duration_to_seconds(PT40M)
        IN  IF lo.kind # "ok" \/ hi.kind # "ok" THEN Fail("Test duration error")
            ELSE Call("cat funny", "interval", None, lo.value, hi.value)
    ELSE IF a.list THEN Call("user query", "list", None, None, None)
    ELSE IF ExactGiven(a) THEN
        IF IntervalGiven(a)
        THEN Fail("Cannot mix exact duration options with interval options.")
        ELSE LET target == IF a.seconds.given THEN Ok(a.seconds.v)
                           ELSE iso_time_duration_to_seconds(a.iso_8601.v)
             IN  IF target.kind # "ok" THEN Fail("Duration parsing error")
                 ELSE Call("user query", "exact", target.value, None, None)
    ELSE IF IntervalGiven(a) THEN
        LET lo == IF TruthyStr(a.min_duration)
                  THEN iso_time_duration_to_seconds(a.min_duration.v) ELSE Ok(0)
            hi == IF TruthyStr(a.max_duration)
                  THEN iso_time_duration_to_seconds(a.max_duration.v) ELSE Ok(Inf)
        IN  IF lo.kind # "ok" \/ hi.kind # "ok" THEN Fail("Duration parsing error")
            ELSE Call("user query", "interval", None, lo.value, hi.value)
    ELSE Fail("No valid duration filter provided.")

searchVars == <<category, searchRequests, searchOutcome, nItems, idx,
                hit_count, fetched, stdout>>
callVars == <<query, mode, target_seconds, min_seconds, max_seconds>>

ParseArgs ==
    /\ pc = "parse_args"
    /\ IF ParseArgsAccepts(args)
       THEN /\ pc' = "main"
            /\ UNCHANGED <<stderr, exitCode>>
       ELSE /\ pc' = "exited"
            /\ stderr' = Append(stderr, "usage")
            /\ exitCode' = 2
    /\ UNCHANGED <<args, api_key, callVars, searchVars, fnVars>>

Main ==
    /\ pc = "main"
    /\ LET call == MainSetup(args, api_key) IN
       IF call.err
       THEN /\ pc' = "exited"
            /\ stderr' = Append(stderr, call.msg)
            /\ exitCode' = 1
            /\ UNCHANGED callVars
       ELSE /\ pc' = "search"
            /\ query' = call.query
            /\ mode' = call.mode
            /\ target_seconds' = call.target
            /\ min_seconds' = call.min
            /\ max_seconds' = call.max
            /\ UNCHANGED <<stderr, exitCode>>
    /\ UNCHANGED <<args, api_key, searchVars, fnVars>>

---------------------------------------------------------------------------
(* search_youtube_videos *)

\* The category is derived and the one search request is issued; the
\* platform answers with a list of items, an HttpError, or the transport
\* raises something else, which nothing catches.
Search ==
    /\ pc = "search"
    /\ category' = DurationCategory(mode = "list", mode, target_seconds,
                                    min_seconds, max_seconds)
    /\ searchRequests' = searchRequests + 1
    /\ \/ \E n \in 0..MaxItems :
            /\ searchOutcome' = "ok"
            /\ nItems' = n
            /\ pc' = "loop"
            /\ UNCHANGED <<stderr, exitCode>>
       \/ /\ searchOutcome' = "HttpError"
          /\ stderr' = Append(stderr, "HTTP Error")
          /\ pc' = SearchFailureExit.pc
          /\ exitCode' = SearchFailureExit.exitCode
          /\ UNCHANGED nItems
       \/ /\ searchOutcome' = "OtherError"
          /\ stderr' = Append(stderr, "Traceback")
          /\ pc' = "exited"
          /\ exitCode' = 1
          /\ UNCHANGED nItems
    /\ UNCHANGED <<args, api_key, callVars, idx, hit_count, fetched, stdout,
                   fnVars>>

\* One iteration of the loop over the items of the search response.
ProcessItem ==
    /\ pc = "loop"
    /\ idx <= nItems
    /\ \E resp \in DetailResponses :
         LET dur == ItemDuration(resp) IN
         /\ fetched' = Append(fetched, resp)
         /\ IF dur.kind # "ok"
            THEN /\ stderr' = Append(stderr, "Error processing video")
                 /\ pc' = AfterItemError(idx).pc
                 /\ idx' = AfterItemError(idx).idx
                 /\ exitCode' = AfterItemError(idx).exitCode
                 /\ UNCHANGED <<stdout, hit_count>>
            ELSE /\ IF Prints(mode = "list", mode, dur.value, target_seconds,
                              min_seconds, max_seconds)
                    THEN /\ stdout' = Append(stdout,
                                [id |-> idx, duration_iso |-> resp.duration,
                                 duration_seconds |-> dur.value])
                         /\ hit_count' = hit_count + 1
                    ELSE UNCHANGED <<stdout, hit_count>>
                 /\ idx' = idx + 1
                 /\ UNCHANGED <<pc, stderr, exitCode>>
    /\ UNCHANGED <<args, api_key, callVars, category, searchRequests,
                   searchOutcome, nItems, fnVars>>

\* The loop is over: the notice, the return to main, and the end of main.
Finish ==
    /\ pc = "loop"
    /\ idx > nItems
    /\ stderr' = IF NoticeNeeded(hit_count)
                 THEN Append(stderr, "No matching videos")
                 ELSE stderr
    /\ pc' = "exited"
    /\ exitCode' = 0
    /\ UNCHANGED <<args, api_key, callVars, searchVars, fnVars>>

---------------------------------------------------------------------------
(* The pure functions as steps *)

Parse ==
    /\ pc = "parse"
    /\ result' = iso_time_duration_to_seconds(duration_iso)
    /\ pc' = "parsed"
    /\ UNCHANGED <<args, api_key, callVars, searchVars, stderr, exitCode,
                   comps, duration_iso, duration_seconds, passes>>

Classify ==
    /\ pc = "classify"
    /\ category' = DurationCategory(mode = "list", mode, target_seconds,
                                    min_seconds, max_seconds)
    /\ passes' = Prints(mode = "list", mode, duration_seconds, target_seconds,
                        min_seconds, max_seconds)
    /\ pc' = "classified"
    /\ UNCHANGED <<args, api_key, callVars, searchRequests, searchOutcome,
                   nItems, idx, hit_count, fetched, stdout, stderr, exitCode,
                   comps, duration_iso, result, duration_seconds>>

---------------------------------------------------------------------------
(* Specifications *)

FnIdle ==
    /\ comps = NoComps
    /\ duration_iso = <<>>
    /\ result = Raise("none")
    /\ duration_seconds = 0
    /\ passes = FALSE

SearchIdle ==
    /\ category = "none"
    /\ searchRequests = 0
    /\ searchOutcome = "none"
    /\ nItems = 0
    /\ idx = 1
    /\ hit_count = 0
    /\ fetched = <<>>
    /\ stdout = <<>>
    /\ stderr = <<>>
    /\ exitCode = Running

CallIdle ==
    /\ query = ""
    /\ mode = "unset"
    /\ target_seconds = None
    /\ min_seconds = None
    /\ max_seconds = None

Init ==
    /\ pc = "parse_args"
    /\ args \in ArgsSet
    /\ api_key \in BOOLEAN
    /\ CallIdle
    /\ SearchIdle
    /\ FnIdle

Next == ParseArgs \/ Main \/ Search \/ ProcessItem \/ Finish

Spec == Init /\ [][Next]_vars

InitSearch ==
    /\ pc = "search"
    /\ args = NoArgs
    /\ api_key = TRUE
    /\ query = "user query"
    /\ \E fm \in RunModeSet :
         /\ mode = fm.mode
         /\ target_seconds = fm.target
         /\ min_seconds = fm.min
         /\ max_seconds = fm.max
    /\ SearchIdle
    /\ FnIdle

NextSearch == Search \/ ProcessItem \/ Finish

SpecSearch == InitSearch /\ [][NextSearch]_vars

InitParse ==
    /\ pc = "parse"
    /\ args = NoArgs
    /\ api_key = TRUE
    /\ CallIdle
    /\ SearchIdle
    /\ comps = NoComps
    /\ duration_iso \in InputStrings
    /\ result = Raise("none")
    /\ duration_seconds = 0
    /\ passes = FALSE

NextParse == Parse

SpecParse == InitParse /\ [][NextParse]_vars

InitRoundTrip ==
    /\ pc = "parse"
    /\ args = NoArgs
    /\ api_key = TRUE
    /\ CallIdle
    /\ SearchIdle
    /\ comps \in ComponentTuples
    /\ duration_iso = Format(comps)
    /\ result = Raise("none")
    /\ duration_seconds = 0
    /\ passes = FALSE

SpecRoundTrip == InitRoundTrip /\ [][NextParse]_vars

InitClassify ==
    /\ pc = "classify"
    /\ args = NoArgs
    /\ api_key = TRUE
    /\ query = "user query"
    /\ \E fm \in ModeSet :
         /\ mode = fm.mode
         /\ target_seconds = fm.target
         /\ min_seconds = fm.min
         /\ max_seconds = fm.max
    /\ SearchIdle
    /\ comps = NoComps
    /\ duration_iso = <<>>
    /\ result = Raise("none")
    /\ duration_seconds \in NearBoundary
    /\ passes = FALSE

NextClassify == Classify

SpecClassify == InitClassify /\ [][NextClassify]_vars

---------------------------------------------------------------------------
(* The duration grammar, written out as the set of its strings *)

\* The components a string over Alphabet can carry: one or two digits.
Numerals == {<<a>> : a \in {"0", "5"}} \cup {<<a, b>> : a, b \in {"0", "5"}}
Padded(num) == Len(num) = 2 /\ num[1] = "0"
Component(num, X) == IF num = <<>> THEN <<>> ELSE num \o <<X>>

GrammarTuples ==
    { g \in [days : Numerals \cup {<<>>}, hours : Numerals \cup {<<>>},
             minutes : Numerals \cup {<<>>}, seconds : Numerals \cup {<<>>},
             hasT : BOOLEAN] :
        ~g.hasT => (g.hours = <<>> /\ g.minutes = <<>> /\ g.seconds = <<>>) }

Spell(g) ==
    <<"P">> \o Component(g.days, "D")
    \o (IF g.hasT
        THEN <<"T">> \o Component(g.hours, "H") \o Component(g.minutes, "M")
             \o Component(g.seconds, "S")
        ELSE <<>>)

\* P[nD][T[nH][nM][nS]] over the digits of Alphabet
GrammarStrings == {Spell(g) : g \in GrammarTuples}
\* those of them with a two-character component that begins with 0
PaddedStrings ==
    {Spell(g) : g \in {h \in GrammarTuples :
                         \/ Padded(h.days) \/ Padded(h.hours)
                         \/ Padded(h.minutes) \/ Padded(h.seconds)}}

---------------------------------------------------------------------------
(* Claims *)

\* The video's seconds satisfy the mode's predicate: List passes everything,
\* Exact(target) passes seconds == target, Interval(min, max) passes
\* min <= seconds <= max, with no upper limit when max is unbounded.
ModePredicate(secs) ==
    CASE mode = "list" -> TRUE
      [] mode = "exact" -> secs = target_seconds
      [] mode = "interval" ->
            min_seconds <= secs /\ (max_seconds = Inf \/ secs <= max_seconds)
      [] OTHER -> FALSE

Qualifies(resp) ==
    /\ ItemDuration(resp).kind = "ok"
    /\ ModePredicate(ItemDuration(resp).value)

RECURSIVE ExpectedResults(_)
ExpectedResults(k) ==
    IF k = 0 THEN <<>>
    ELSE IF Qualifies(fetched[k])
         THEN Append(ExpectedResults(k - 1),
                     [id |-> k, duration_iso |-> fetched[k].duration,
                      duration_seconds |-> ItemDuration(fetched[k]).value])
         ELSE ExpectedResults(k - 1)

Occurrences(seq, x) == Cardinality({i \in DOMAIN seq : seq[i] = x})

\* C1: the results emitted are exactly the order-preserving subsequence of
\* the returned items whose duration was fetched and parsed and whose seconds
\* satisfy the mode's predicate (inclusive interval bounds); nothing is
\* emitted twice, reordered, or emitted when it fails the predicate.
C1_EmittedIsFilteredSubsequence ==
    /\ stdout = ExpectedResults(Len(fetched))
    /\ \A i, j \in DOMAIN stdout : i < j => stdout[i].id < stdout[j].id

C1_Witness ==
    /\ pc = "exited"
    /\ mode = "interval" /\ min_seconds = 1800 /\ max_seconds = 2400
    /\ fetched = <<Item(PT29M59S), Item(PT40M), Item(PT30M)>>
    /\ Len(stdout) = 2
    /\ stdout[1].duration_seconds = 2400
    /\ stdout[2].duration_seconds = 1800

\* C2: iso_time_duration_to_seconds classifies every input into exactly one
\* of three outcomes: InvalidFormat iff the string is not in the grammar
\* P[nD][T[nH][nM][nS]], ZeroPaddedComponent iff it is and some component is
\* two characters beginning with 0, a value otherwise; P and PT0S give 0,
\* 5M and PT05M are rejected.
C2_ParseOutcomes ==
    pc = "parsed" =>
        /\ result.kind \in {"ok", "InvalidFormat", "ZeroPaddedComponent"}
        /\ (result.kind = "InvalidFormat") <=> (duration_iso \notin GrammarStrings)
        /\ (result.kind = "ZeroPaddedComponent") <=> (duration_iso \in PaddedStrings)
        /\ (result.kind = "ok") <=>
              (duration_iso \in GrammarStrings \ PaddedStrings)
        /\ duration_iso = <<"P">> => result = Ok(0)
        /\ duration_iso = <<"P", "T", "0", "S">> => result = Ok(0)
        /\ duration_iso = <<"5", "M">> => result.kind = "InvalidFormat"
        /\ duration_iso = PT05M => result.kind = "ZeroPaddedComponent"

C2_Witness ==
    /\ pc = "parsed"
    /\ duration_iso = <<"P", "5", "D", "T", "5", "H", "5", "M", "0", "0", "S">>
    /\ result.kind = "ZeroPaddedComponent"

\* C3: the string written from components (each absent or 0..99, unpadded)
\* parses to days*86400 + hours*3600 + minutes*60 + seconds, absent counted
\* as 0, which is a non-negative integer.
Given(n) == IF n = Absent THEN 0 ELSE n

C3_RoundTrip ==
    pc = "parsed" =>
        /\ result.kind = "ok"
        /\ result.value = Given(comps.days) * 86400 + Given(comps.hours) * 3600
                          + Given(comps.minutes) * 60 + Given(comps.seconds)
        /\ result.value >= 0

C3_Witness ==
    /\ pc = "parsed"
    /\ duration_iso = <<"P", "1", "D", "T", "2", "H", "3", "M", "4", "S">>
    /\ result = Ok(93784)

\* C4: the category sent is List -> any; Exact(t) -> short if t < 240,
\* medium if 240 <= t < 1200, long otherwise; Interval(min, max) -> short if
\* max < 240, else medium if min >= 240 and max < 1200, else long if
\* min >= 1200, else any; max may be unbounded.
Below(bound, limit) == bound # Inf /\ bound < limit

C4_Category ==
    pc = "classified" =>
        category =
          CASE mode = "list" -> "any"
            [] mode = "exact" /\ target_seconds < 240 -> "short"
            [] mode = "exact" /\ 240 <= target_seconds /\ target_seconds < 1200
                 -> "medium"
            [] mode = "exact" /\ target_seconds >= 1200 -> "long"
            [] mode = "interval" /\ Below(max_seconds, 240) -> "short"
            [] mode = "interval" /\ ~Below(max_seconds, 240) /\ min_seconds >= 240
               /\ Below(max_seconds, 1200) -> "medium"
            [] mode = "interval" /\ ~Below(max_seconds, 240)
               /\ ~(min_seconds >= 240 /\ Below(max_seconds, 1200))
               /\ min_seconds >= 1200 -> "long"
            [] OTHER -> "any"

C4_Witness ==
    /\ pc = "classified"
    /\ mode = "interval" /\ min_seconds = 100 /\ max_seconds = 1300
    /\ category = "any"

\* C5: an item whose content-details fetch fails, returns no item, or whose
\* duration does not parse is skipped with a diagnostic and emits nothing;
\* later items are still fetched and filtered, and the run ends with 0.
Failing(resp) == ItemDuration(resp).kind # "ok"

C5_ItemFailureIsSkipped ==
    searchOutcome = "ok" =>
        /\ \/ pc = "loop" /\ exitCode = Running /\ idx = Len(fetched) + 1
           \/ pc = "exited" /\ exitCode = 0 /\ Len(fetched) = nItems
        /\ Occurrences(stderr, "Error processing video")
             = Cardinality({k \in DOMAIN fetched : Failing(fetched[k])})
        /\ \A k \in DOMAIN fetched :
             (\E j \in DOMAIN stdout : stdout[j].id = k)
                <=> (~Failing(fetched[k])
                     /\ ModePredicate(ItemDuration(fetched[k]).value))

C5_Witness ==
    /\ pc = "exited"
    /\ exitCode = 0
    /\ mode = "exact" /\ target_seconds = 300
    /\ fetched = <<HttpErrorResp, Item(PT05M), Item(PT5M)>>
    /\ Len(stdout) = 1
    /\ stdout[1].id = 3

\* C6: if the primary search request fails, the run ends with a non-zero
\* exit code, no content-details request is issued, no result is emitted,
\* and the search request was issued exactly once.
C6_SearchFailureIsFatal ==
    /\ searchRequests <= 1
    /\ searchOutcome \in {"HttpError", "OtherError"} =>
          /\ pc = "exited"
          /\ exitCode \notin {0, Running}
          /\ fetched = <<>>
          /\ stdout = <<>>
          /\ searchRequests = 1

C6_Witness ==
    /\ searchOutcome = "HttpError"
    /\ pc = "exited"
    /\ exitCode = 1

\* C7: when the search succeeds, the "no matching videos" notice is emitted
\* exactly once if no result was emitted and never otherwise, after all
\* items have been processed, and the exit code is 0.
C7_NoticeIffNoResults ==
    searchOutcome = "ok" =>
        /\ pc = "loop" => Occurrences(stderr, "No matching videos") = 0
        /\ pc = "exited" =>
              /\ exitCode = 0
              /\ Len(fetched) = nItems
              /\ Occurrences(stderr, "No matching videos")
                   = (IF Len(stdout) = 0 THEN 1 ELSE 0)
              /\ Len(stdout) = 0 => stderr[Len(stderr)] = "No matching videos"

C7_Witness ==
    /\ pc = "exited"
    /\ exitCode = 0
    /\ nItems = 2
    /\ fetched = <<EmptyResp, Item(PT05M)>>
    /\ stderr = <<"Error processing video", "Error processing video",
                  "No matching videos">>

\* C8: every invocation that supplies both an exact option (-i or -s, with
\* any value) and an interval bound (--min-duration and/or --max-duration)
\* exits non-zero with no remote request issued.  Stated for invocations
\* without the self-test flag, which replaces the filter arguments.
C8_ExactWithIntervalIsUsageError ==
    (/\ ~args.test
     /\ args.iso_8601.given \/ args.seconds.given
     /\ args.min_duration.given \/ args.max_duration.given) =>
        /\ searchRequests = 0
        /\ fetched = <<>>
        /\ pc = "exited" => exitCode \notin {0, Running}

\* C9: with the self-test flag set, whatever filter arguments are given, the
\* run issues its search in interval mode with min = 1800 and max = 2400.
C9_SelfTestOverridesFilters ==
    (args.test /\ args.q /\ api_key /\ pc \notin {"parse_args", "main"}) =>
        /\ pc = "search" \/ searchRequests = 1
        /\ mode = "interval"
        /\ min_seconds = 1800
        /\ max_seconds = 2400

\* C10: the category never excludes a video the filter accepts: for every
\* mode and every duration that passes the filter, the category is any or
\* the duration lies in its bucket (short < 240 <= medium < 1200 <= long).
InBucket(cat, secs) ==
    CASE cat = "short" -> secs < 240
      [] cat = "medium" -> 240 <= secs /\ secs < 1200
      [] cat = "long" -> secs >= 1200
      [] OTHER -> FALSE

C10_CategoryKeepsAccepted ==
    (pc = "classified" /\ passes) =>
        category = "any" \/ InBucket(category, duration_seconds)

C10_Witness ==
    /\ pc = "classified"
    /\ passes
    /\ mode = "interval" /\ min_seconds = 240 /\ max_seconds = 1199
    /\ duration_seconds = 1199
    /\ category = "medium"

====
